---- MODULE Spec2Model ----
(***************************************************************************)
(* A model of inventory_system.py: an inventory dictionary (item name ->   *)
(* quantity) manipulated by add_item / remove_item / get_qty /             *)
(* check_low_items / print_data and persisted by save_data / load_data as  *)
(* a JSON file.                                                            *)
(*                                                                         *)
(* Representation.                                                         *)
(*   - a Python str is a sequence of one-character strings;                *)
(*   - a dict is the sequence of its entries [item, qty] in insertion      *)
(*     order (Python dicts iterate in insertion order), keys unique;       *)
(*   - a quantity argument is a tagged value [kind, v]: kind is the Python *)
(*     type ("int", "bool", "float", "str") and v its numeric value        *)
(*     (True is 1; v is 0 for a str);                                      *)
(*   - a file is [exists, bytes]; bytes is a sequence of one-character     *)
(*     strings, with BadByte standing for a byte that is not UTF-8.        *)
(***************************************************************************)
EXTENDS Integers, Sequences, FiniteSets, TLC

VARIABLES
    stock_data,   \* the caller's inventory dict
    logs,         \* the caller's log list L, passed to some add_item calls
    fs,           \* the file system: path -> file
    call,         \* the last call made: [op, item, qty, withLogs, file, assign, threshold]
    ret,          \* its outcome: [exc, val, diag]
    pre,          \* the caller's state when the call was made: [stock_data, logs, fs]
    nLogged,      \* how many add_item calls were given L with a non-empty name and an integer quantity
    saved         \* per path, the dict given to the most recent save_data of it, if any

vars == <<stock_data, logs, fs, call, ret, pre, nLogged, saved>>

----------------------------------------------------------------------------
(* Bounds of the model *)

\* the calls explored keep stored quantities within -MaxNeg .. MaxQty
MaxQty == 6
MaxNeg == 1
\* the caller's log list is given to add_item while it is shorter than this
MaxLogs == 2

----------------------------------------------------------------------------
(* Python values *)

Int_(n)  == [kind |-> "int", v |-> n]
PyTrue   == [kind |-> "bool", v |-> 1]
PyFloat  == [kind |-> "float", v |-> 1]
PyStr    == [kind |-> "str", v |-> 0]
NoQty    == [kind |-> "none", v |-> 0]

\* isinstance(qty, int): bool is a subclass of int
isinstance_int(qty) == qty.kind \in {"int", "bool"}

\* truthiness of a str: the empty string is falsy
truthy(item) == item # <<>>

----------------------------------------------------------------------------
(* dict operations *)

dict_keys(d) == {d[i].item : i \in DOMAIN d}

dict_has(d, k) == \E i \in DOMAIN d : d[i].item = k

dict_index(d, k) == CHOOSE i \in DOMAIN d : d[i].item = k

\* d[k] of a present key
dict_at(d, k) == d[dict_index(d, k)].qty

\* d.get(k, default)
dict_get(d, k, default) == IF dict_has(d, k) THEN dict_at(d, k) ELSE default

\* d[k] = v: an existing key keeps its position, a new key goes last
dict_set(d, k, v) ==
    IF dict_has(d, k)
    THEN [d EXCEPT ![dict_index(d, k)].qty = v]
    ELSE Append(d, [item |-> k, qty |-> v])

\* del d[k] of a present key
dict_del(d, k) ==
    LET i == dict_index(d, k)
    IN  SubSeq(d, 1, i - 1) \o SubSeq(d, i + 1, Len(d))

----------------------------------------------------------------------------
(* add_item *)

\* a variant that tests "if not logs" and so replaces an empty caller's list
bind_logs_falsy(arg) ==
    IF arg.none \/ arg.list = <<>>
    THEN [aliased |-> FALSE, list |-> <<>>]
    ELSE [aliased |-> TRUE, list |-> arg.list]

\* "if logs is None: logs = []": the list add_item appends to, and whether it
\* is the caller's list (arg.none is FALSE) or a fresh one
bind_logs(arg) ==
    IF arg.none
    THEN [aliased |-> FALSE, list |-> <<>>]
    ELSE [aliased |-> TRUE, list |-> arg.list]

\* a variant that does not check the quantity's type
add_rejects_name_only(item, qty) == ~truthy(item)

\* the validation of line 33: TRUE when the call is rejected

add_rejects(item, qty) == ~truthy(item) \/ ~isinstance_int(qty)

\* a variant that assigns the quantity instead of adding it
add_store_overwrite(sd, item, qty) == dict_set(sd, item, qty.v)

\* stock_data[item] = stock_data.get(item, 0) + qty

add_store(sd, item, qty) == dict_set(sd, item, dict_get(sd, item, 0) + qty.v)

\* the entry appended to the log list: f"{datetime.now()}: Added {qty} of {item}"
\* (the timestamp prefix is a wall-clock text nothing reads back)
log_entry(item, qty) == [msg |-> "Added", qty |-> qty, item |-> item]

\* add_item(stock_data, item, qty, logs): the dict and the caller's list after
\* the call, and the diagnostic emitted
add_item(sd, item, qty, arg) ==
    LET bound == bind_logs(arg)
    IN  IF add_rejects(item, qty)
        THEN [stock_data |-> sd, logs |-> arg.list, diag |-> "error"]
        ELSE [stock_data |-> add_store(sd, item, qty),
              logs |-> IF bound.aliased
                       THEN Append(bound.list, log_entry(item, qty))
                       ELSE arg.list,
              diag |-> "info"]

----------------------------------------------------------------------------
(* remove_item *)

\* a variant that compares with >=
remove_keeps_geq(stored, qty) == stored >= qty.v

\* the branch of line 55: TRUE when the entry is kept and decremented

remove_keeps(stored, qty) == stored > qty.v

\* a variant whose handler does not catch the KeyError of an absent item
remove_item_uncaught(sd, item, qty) ==
    IF ~dict_has(sd, item)
    THEN [stock_data |-> sd, exc |-> "KeyError", diag |-> "none"]
    ELSE IF ~isinstance_int(qty)
    THEN [stock_data |-> sd, exc |-> "TypeError", diag |-> "none"]
    ELSE IF remove_keeps(dict_at(sd, item), qty)
    THEN [stock_data |-> dict_set(sd, item, dict_at(sd, item) - qty.v),
          exc |-> "none", diag |-> "none"]
    ELSE [stock_data |-> dict_del(sd, item), exc |-> "none", diag |-> "none"]

\* remove_item(stock_data, item, qty). stock_data[item] raises KeyError for an
\* absent item before qty is looked at, and the handler logs a warning; an
\* int compared with a str raises TypeError, which no handler catches
remove_item(sd, item, qty) ==
    IF ~dict_has(sd, item)
    THEN [stock_data |-> sd, exc |-> "none", diag |-> "warning"]
    ELSE IF ~isinstance_int(qty)
    THEN [stock_data |-> sd, exc |-> "TypeError", diag |-> "none"]
    ELSE IF remove_keeps(dict_at(sd, item), qty)
    THEN [stock_data |-> dict_set(sd, item, dict_at(sd, item) - qty.v),
          exc |-> "none", diag |-> "none"]
    ELSE [stock_data |-> dict_del(sd, item), exc |-> "none", diag |-> "none"]

----------------------------------------------------------------------------
(* get_qty, check_low_items, print_data *)

get_qty(sd, item) == dict_get(sd, item, 0)

\* threshold=5
DefaultThreshold == 5

\* a variant that compares with <=
low_leq(quantity, threshold) == quantity <= threshold

\* the filter of line 148

low(quantity, threshold) == quantity < threshold

\* [item for item, quantity in stock_data.items() if quantity < threshold]
RECURSIVE check_low_items(_, _)
check_low_items(sd, threshold) ==
    IF sd = <<>> THEN <<>>
    ELSE LET rest == check_low_items(Tail(sd), threshold)
         IN  IF low(Head(sd).qty, threshold)
             THEN <<Head(sd).item>> \o rest
             ELSE rest

\* the lines print_data writes between its two banners
print_data(sd) ==
    IF sd = <<>>
    THEN <<[item |-> <<>>, qty |-> 0, text |-> "Inventory is empty."]>>
    ELSE [i \in DOMAIN sd |-> [item |-> sd[i].item, qty |-> sd[i].qty, text |-> "->"]]

----------------------------------------------------------------------------
(* Text and files *)

QUOTE  == "\""
BSLASH == "\\"
LF     == "\n"
SPACE  == " "
\* a byte that is no part of any UTF-8 sequence (0xFF)
BadByte == "0xFF"

Digits == <<"0", "1", "2", "3", "4", "5", "6", "7", "8", "9">>
DigitSet == {Digits[i] : i \in DOMAIN Digits}
DigitVal(c) == (CHOOSE i \in DOMAIN Digits : Digits[i] = c) - 1

\* the characters the model's texts are written in; none of them starts a
\* JSON literal (true, false, null, NaN, Infinity), an array or a fraction
Alphabet == {QUOTE, BSLASH, LF, SPACE, "{", "}", ":", ",", "-", "a", "x"} \cup DigitSet

NoFile == [exists |-> FALSE, bytes |-> <<>>]
File(bytes) == [exists |-> TRUE, bytes |-> bytes]

----------------------------------------------------------------------------
(* json.dump(stock_data, f, indent=4) *)

\* int.__repr__ of a natural number, most significant digit first
RECURSIVE nat_repr(_)
nat_repr(n) ==
    IF n < 10 THEN <<Digits[n + 1]>>
    ELSE nat_repr(n \div 10) \o <<Digits[(n % 10) + 1]>>

\* a variant that loses the sign
int_repr_no_sign(n) == IF n < 0 THEN nat_repr(0 - n) ELSE nat_repr(n)

int_repr(n) == IF n < 0 THEN <<"-">> \o nat_repr(0 - n) ELSE nat_repr(n)

\* the body of a JSON string: a quote and a backslash are escaped
RECURSIVE encode_chars(_)
encode_chars(k) ==
    IF k = <<>> THEN <<>>
    ELSE (IF Head(k) \in {QUOTE, BSLASH} THEN <<BSLASH, Head(k)>> ELSE <<Head(k)>>)
         \o encode_chars(Tail(k))

encode_str(k) == <<QUOTE>> \o encode_chars(k) \o <<QUOTE>>

\* indent=4
IndentWidth == 4
Indent == [i \in 1..IndentWidth |-> SPACE]

\* the members of a non-empty object, each on a line of its own, "," between
RECURSIVE dump_members(_)
dump_members(sd) ==
    IF sd = <<>> THEN <<>>
    ELSE <<LF>> \o Indent \o encode_str(Head(sd).item) \o <<":", SPACE>>
         \o int_repr(Head(sd).qty)
         \o (IF Len(sd) > 1 THEN <<",">> ELSE <<>>)
         \o dump_members(Tail(sd))

json_dump(sd) ==
    IF sd = <<>> THEN <<"{", "}">>
    ELSE <<"{">> \o dump_members(sd) \o <<LF, "}">>

----------------------------------------------------------------------------
(* json.load(f): the decoder, on texts over Alphabet *)

ParseFail == [ok |-> FALSE, val |-> <<>>, end |-> 0]
ParseOk(v, e) == [ok |-> TRUE, val |-> v, end |-> e]

\* s[i:i+1]: the empty string past the end
char_at(s, i) == IF i <= Len(s) THEN s[i] ELSE ""

WS == {SPACE, LF}

RECURSIVE skip_ws(_, _)
skip_ws(s, i) == IF char_at(s, i) \in WS THEN skip_ws(s, i + 1) ELSE i

\* scanstring, from the character after the opening quote: ends at the first
\* unescaped quote; \" and \\ are the escapes the alphabet can spell, any
\* other escape and a raw line feed (strict mode) are errors
RECURSIVE scanstring(_, _, _)
scanstring(s, i, acc) ==
    IF i > Len(s) THEN ParseFail
    ELSE IF s[i] = QUOTE THEN ParseOk(acc, i + 1)
    ELSE IF s[i] = BSLASH
    THEN IF char_at(s, i + 1) \in {QUOTE, BSLASH}
         THEN scanstring(s, i + 2, Append(acc, s[i + 1]))
         ELSE ParseFail
    ELSE IF s[i] = LF THEN ParseFail
    ELSE scanstring(s, i + 1, Append(acc, s[i]))

RECURSIVE scan_digits(_, _, _)
scan_digits(s, i, acc) ==
    IF char_at(s, i) \in DigitSet
    THEN scan_digits(s, i + 1, acc * 10 + DigitVal(s[i]))
    ELSE [val |-> acc, end |-> i]

\* NUMBER_RE: -?(0|[1-9][0-9]*)
match_number(s, i) ==
    LET neg == char_at(s, i) = "-"
        j   == IF neg THEN i + 1 ELSE i
    IN  IF char_at(s, j) = "0" THEN ParseOk(0, j + 1)
        ELSE IF char_at(s, j) \in DigitSet
        THEN LET r == scan_digits(s, j, 0)
             IN  ParseOk(IF neg THEN 0 - r.val ELSE r.val, r.end)
        ELSE ParseFail

\* dict(pairs): a repeated key keeps its first position and its last value
RECURSIVE dict_of(_, _)
dict_of(pairs, acc) ==
    IF pairs = <<>> THEN acc
    ELSE dict_of(Tail(pairs), dict_set(acc, Head(pairs).item, Head(pairs).qty))

RECURSIVE scan_once(_, _)
RECURSIVE object_pairs(_, _, _)

\* JSONObject from the character after a key's opening quote
object_pairs(s, i, acc) ==
    LET k == scanstring(s, i, <<>>)
    IN  IF ~k.ok THEN ParseFail
        ELSE LET colon == skip_ws(s, k.end)
             IN  IF char_at(s, colon) # ":" THEN ParseFail
                 ELSE LET v == scan_once(s, skip_ws(s, colon + 1))
                      IN  IF ~v.ok THEN ParseFail
                          ELSE LET e    == skip_ws(s, v.end)
                                   acc2 == Append(acc, [item |-> k.val, qty |-> v.val])
                               IN  IF char_at(s, e) = "}" THEN ParseOk(dict_of(acc2, <<>>), e + 1)
                                   ELSE IF char_at(s, e) # "," THEN ParseFail
                                   ELSE LET q == skip_ws(s, e + 1)
                                        IN  IF char_at(s, q) # QUOTE THEN ParseFail
                                            ELSE object_pairs(s, q + 1, acc2)

\* JSONObject from the character after "{"
JSONObject(s, i) ==
    LET j == skip_ws(s, i)
    IN  IF char_at(s, j) = "}" THEN ParseOk(<<>>, j + 1)
        ELSE IF char_at(s, j) # QUOTE THEN ParseFail
        ELSE object_pairs(s, j + 1, <<>>)

scan_once(s, i) ==
    IF char_at(s, i) = QUOTE THEN scanstring(s, i + 1, <<>>)
    ELSE IF char_at(s, i) = "{" THEN JSONObject(s, i + 1)
    ELSE match_number(s, i)

\* JSONDecoder.decode: one value, white space around it, nothing after it
json_decode(s) ==
    LET r == scan_once(s, skip_ws(s, 1))
    IN  IF r.ok /\ skip_ws(s, r.end) = Len(s) + 1 THEN r ELSE ParseFail

----------------------------------------------------------------------------
(* load_data, save_data *)

DefaultFile == "inventory.json"

\* open(file, "r", encoding="utf-8") raises FileNotFoundError for a missing
\* file; f.read() decodes the whole file and raises UnicodeDecodeError (a
\* ValueError that is not a JSONDecodeError) on a byte that is not UTF-8
load_data(fsys, file) ==
    IF ~fsys[file].exists
    THEN [exc |-> "none", val |-> <<>>, diag |-> "warning"]
    ELSE IF \E i \in DOMAIN fsys[file].bytes : fsys[file].bytes[i] = BadByte
    THEN [exc |-> "UnicodeDecodeError", val |-> <<>>, diag |-> "none"]
    ELSE LET r == json_decode(fsys[file].bytes)
         IN  IF r.ok
             THEN [exc |-> "none", val |-> r.val, diag |-> "none"]
             ELSE [exc |-> "none", val |-> <<>>, diag |-> "error"]

\* a variant that opens the file for appending
save_data_append(fsys, sd, file) ==
    [fsys EXCEPT ![file] = File(fsys[file].bytes \o json_dump(sd))]

\* open(file, "w") truncates the file, json.dump writes the whole text
save_data(fsys, sd, file) == [fsys EXCEPT ![file] = File(json_dump(sd))]

----------------------------------------------------------------------------
(* The callers' inputs *)

ItemA == <<"a">>
ItemX == <<"x">>
Items == {ItemA, ItemX}
\* the names a call may be given: the empty name is the invalid one
AnyItem == Items \cup {<<>>}

NonNegQtys == {Int_(0), Int_(1), Int_(2), PyTrue}
IntQtys    == NonNegQtys \cup {Int_(0 - 1)}
\* the quantities a call may be given, integers or not
AnyQty     == IntQtys \cup {PyFloat, PyStr}

Paths == {DefaultFile, "backup.json"}

Thresholds == 0 .. MaxQty
NoThreshold == [given |-> FALSE, v |-> 0]
ThresholdArgs == {NoThreshold} \cup {[given |-> TRUE, v |-> t] : t \in Thresholds}

\* the entry of item, if any, is within the quantities explored
InRange(sd, item) ==
    \A i \in DOMAIN sd : sd[i].item = item => sd[i].qty \in (0 - MaxNeg) .. MaxQty

NoCall == [op |-> "none", item |-> <<>>, qty |-> NoQty, withLogs |-> FALSE,
           file |-> "", assign |-> FALSE, threshold |-> NoThreshold]
NoRet  == [exc |-> "none", val |-> <<>>, diag |-> "none"]
NoSave == [done |-> FALSE, stock_data |-> <<>>]

Snapshot == [stock_data |-> stock_data, logs |-> logs, fs |-> fs]

----------------------------------------------------------------------------
(* The calls *)

\* add_item(stock_data, item, qty) and add_item(stock_data, item, qty, logs)
AddItem(items, qtys, logChoices) ==
    \E item \in items, qty \in qtys, withLogs \in logChoices :
        LET arg == [none |-> ~withLogs, list |-> IF withLogs THEN logs ELSE <<>>]
            r   == add_item(stock_data, item, qty, arg)
        IN  /\ withLogs => Len(logs) < MaxLogs
            /\ InRange(r.stock_data, item)
            /\ stock_data' = r.stock_data
            /\ logs' = IF withLogs THEN r.logs ELSE logs
            /\ nLogged' = IF withLogs /\ item # <<>> /\ qty.kind \in {"int", "bool"}
                          THEN nLogged + 1 ELSE nLogged
            /\ call' = [NoCall EXCEPT !.op = "add_item", !.item = item, !.qty = qty,
                                      !.withLogs = withLogs]
            /\ ret' = [NoRet EXCEPT !.diag = r.diag]
            /\ pre' = Snapshot
            /\ UNCHANGED <<fs, saved>>

\* remove_item(stock_data, item, qty)
RemoveItem(items, qtys) ==
    \E item \in items, qty \in qtys :
        LET r == remove_item(stock_data, item, qty)
        IN  /\ InRange(r.stock_data, item)
            /\ stock_data' = r.stock_data
            /\ call' = [NoCall EXCEPT !.op = "remove_item", !.item = item, !.qty = qty]
            /\ ret' = [NoRet EXCEPT !.exc = r.exc, !.diag = r.diag]
            /\ pre' = Snapshot
            /\ UNCHANGED <<logs, fs, nLogged, saved>>

\* get_qty(stock_data, item)
GetQty(items) ==
    \E item \in items :
        /\ call' = [NoCall EXCEPT !.op = "get_qty", !.item = item]
        /\ ret' = [NoRet EXCEPT !.val = get_qty(stock_data, item)]
        /\ pre' = Snapshot
        /\ UNCHANGED <<stock_data, logs, fs, nLogged, saved>>

\* check_low_items(stock_data) and check_low_items(stock_data, threshold)
CheckLowItems(args) ==
    \E arg \in args :
        LET threshold == IF arg.given THEN arg.v ELSE DefaultThreshold
        IN  /\ call' = [NoCall EXCEPT !.op = "check_low_items", !.threshold = arg]
            /\ ret' = [NoRet EXCEPT !.val = check_low_items(stock_data, threshold)]
            /\ pre' = Snapshot
            /\ UNCHANGED <<stock_data, logs, fs, nLogged, saved>>

\* print_data(stock_data)
PrintData ==
    /\ call' = [NoCall EXCEPT !.op = "print_data"]
    /\ ret' = [NoRet EXCEPT !.val = print_data(stock_data)]
    /\ pre' = Snapshot
    /\ UNCHANGED <<stock_data, logs, fs, nLogged, saved>>

\* load_data(file); with assign, the caller binds the result as main does
\* ("stock_data = load_data()"), unless the call raised
LoadData(paths, assigns) ==
    \E file \in paths, assign \in assigns :
        LET r == load_data(fs, file)
        IN  /\ stock_data' = IF assign /\ r.exc = "none" THEN r.val ELSE stock_data
            /\ call' = [NoCall EXCEPT !.op = "load_data", !.file = file, !.assign = assign]
            /\ ret' = r
            /\ pre' = Snapshot
            /\ UNCHANGED <<logs, fs, nLogged, saved>>

\* save_data(stock_data, file)
SaveData(paths) ==
    \E file \in paths :
        /\ fs' = save_data(fs, stock_data, file)
        /\ saved' = [saved EXCEPT ![file] = [done |-> TRUE, stock_data |-> stock_data]]
        /\ call' = [NoCall EXCEPT !.op = "save_data", !.file = file]
        /\ ret' = NoRet
        /\ pre' = Snapshot
        /\ UNCHANGED <<stock_data, logs, nLogged>>

----------------------------------------------------------------------------
(* Spec: the in-memory operations on a caller's dict, from the empty dict *)

NoFiles == [p \in Paths |-> NoFile]

Init ==
    /\ stock_data = <<>>
    /\ logs = <<>>
    /\ fs = NoFiles
    /\ call = NoCall
    /\ ret = NoRet
    /\ pre = [stock_data |-> <<>>, logs |-> <<>>, fs |-> NoFiles]
    /\ nLogged = 0
    /\ saved = [p \in Paths |-> NoSave]

Next ==
    \/ AddItem(AnyItem, AnyQty, {FALSE})
    \/ RemoveItem(AnyItem, AnyQty)
    \/ GetQty(AnyItem)
    \/ CheckLowItems(ThresholdArgs)
    \/ PrintData

Spec == Init /\ [][Next]_vars


----------------------------------------------------------------------------
(* SpecLogs: add_item calls alone, with and without the caller's log list *)

LogQtys == {Int_(1), PyTrue, PyFloat, PyStr}

NextLogs == AddItem(AnyItem, LogQtys, BOOLEAN)

SpecLogs == Init /\ [][NextLogs]_vars

----------------------------------------------------------------------------
(* SpecNonNeg: from the empty dict, add_item with a non-empty name and a   *)
(* non-negative integer, remove_item with a non-negative integer           *)

NextNonNeg ==
    \/ AddItem(Items, NonNegQtys, {FALSE})
    \/ RemoveItem(AnyItem, NonNegQtys)

SpecNonNeg == Init /\ [][NextNonNeg]_vars

----------------------------------------------------------------------------
(* SpecFile: the life cycle main drives, on the default file: load, calls  *)
(* on the dict in memory, save; the file found at start is any of          *)
(* InitialFiles                                                            *)

TextA10 == <<"{", QUOTE, "a", QUOTE, ":", "1", "0", "}">>

InitialFiles ==
    { NoFile,
      \* an empty file
      File(<<>>),
      \* a truncated object
      File(<<"{", QUOTE, "a", QUOTE, ":">>),
      \* text that is no JSON value
      File(<<"a", "x">>),
      \* a second value after the object
      File(TextA10 \o <<SPACE, "x">>),
      \* a number with a leading zero
      File(<<"{", QUOTE, "a", QUOTE, ":", SPACE, "0", "1", "}">>),
      \* bytes that are not UTF-8
      File(<<BadByte>>),
      File(<<"{", "}", BadByte>>),
      \* objects: compact, with white space around, with a repeated key
      File(TextA10),
      File(<<LF, SPACE, "{", SPACE, "}", LF>>),
      File(<<"{", QUOTE, "x", QUOTE, ":", "2", ",", QUOTE, "a", QUOTE, ":", "-", "1", ",",
             QUOTE, "x", QUOTE, ":", SPACE, "3", "}">>) }

InitFile ==
    /\ stock_data = <<>>
    /\ logs = <<>>
    /\ \E f \in InitialFiles : fs = [NoFiles EXCEPT ![DefaultFile] = f]
    /\ call = NoCall
    /\ ret = NoRet
    /\ pre = [stock_data |-> <<>>, logs |-> <<>>, fs |-> fs]
    /\ nLogged = 0
    /\ saved = [p \in Paths |-> NoSave]

NextFile ==
    \/ LoadData({DefaultFile}, BOOLEAN)
    \/ AddItem(Items, {Int_(2)}, {FALSE})
    \/ RemoveItem(AnyItem, {Int_(2)})
    \/ GetQty(Items)
    \/ CheckLowItems({NoThreshold})
    \/ PrintData
    \/ SaveData({DefaultFile})

SpecFile == InitFile /\ [][NextFile]_vars

----------------------------------------------------------------------------
(* SpecRoundTrip: save_data and load_data applied to any dict of string    *)
(* keys and integer values, on any of the paths                            *)

\* the number of entries of the dicts tried
MaxKeys == 2

RoundTripKeys == {<<>>, ItemA, <<QUOTE>>, <<BSLASH, "x">>}
RoundTripVals == {0 - 12, 0, 7, 105}

\* the dicts of n entries: keys distinct, in any order
RECURSIVE DictsOfLen(_)
DictsOfLen(n) ==
    IF n = 0 THEN {<<>>}
    ELSE {Append(d, [item |-> k, qty |-> v]) :
            d \in DictsOfLen(n - 1), k \in RoundTripKeys, v \in RoundTripVals}

Dicts ==
    {d \in UNION {DictsOfLen(n) : n \in 0 .. MaxKeys} :
        \A i, j \in DOMAIN d : i # j => d[i].item # d[j].item}

InitRoundTrip ==
    /\ stock_data \in Dicts
    /\ logs = <<>>
    /\ fs = NoFiles
    /\ call = NoCall
    /\ ret = NoRet
    /\ pre = [stock_data |-> stock_data, logs |-> <<>>, fs |-> NoFiles]
    /\ nLogged = 0
    /\ saved = [p \in Paths |-> NoSave]

NextRoundTrip ==
    \/ SaveData(Paths)
    \/ LoadData(Paths, {FALSE})

SpecRoundTrip == InitRoundTrip /\ [][NextRoundTrip]_vars

----------------------------------------------------------------------------
(* The properties *)

\* what the properties read of a dict: whether name is a key, and its quantity
Stores(d, name, quantity) ==
    \E i \in DOMAIN d : d[i].item = name /\ d[i].qty = quantity
IsKey(d, name) == \E i \in DOMAIN d : d[i].item = name
\* every entry of d other than name's is an entry of e, and conversely
SameButFor(d, e, name) ==
    /\ \A i \in DOMAIN d : d[i].item # name => Stores(e, d[i].item, d[i].qty)
    /\ \A i \in DOMAIN e : e[i].item # name => Stores(d, e[i].item, e[i].qty)
\* the position of a key in the iteration order
Position(d, name) == CHOOSE i \in DOMAIN d : d[i].item = name
\* an add_item call with a non-empty name and an integer quantity
ValidAdd == call.op = "add_item" /\ call.item # <<>> /\ call.qty.kind \in {"int", "bool"}
NoArg == [none |-> TRUE, list |-> <<>>]

\* C1: a valid add on a present name raises its stored quantity by exactly the
\* added quantity and on an absent name creates the entry at that quantity;
\* so add(n, a) then add(n, b) on a dict without n stores n at a + b, for all
\* non-negative integers a and b.
C1_AddAccumulates ==
    /\ ValidAdd =>
         \E i \in DOMAIN stock_data :
            /\ stock_data[i].item = call.item
            /\ \A j \in DOMAIN stock_data : stock_data[j].item = call.item => j = i
            /\ IF IsKey(pre.stock_data, call.item)
               THEN \E s \in (0 - MaxNeg) .. MaxQty :
                        /\ Stores(pre.stock_data, call.item, s)
                        /\ stock_data[i].qty = s + call.qty.v
               ELSE stock_data[i].qty = call.qty.v
    /\ \A n \in Items, a \in 0 .. 2, b \in 0 .. 2 :
         ~IsKey(stock_data, n) =>
            LET once  == add_item(stock_data, n, Int_(a), NoArg).stock_data
                twice == add_item(once, n, Int_(b), NoArg).stock_data
            IN  Stores(twice, n, a + b) /\ SameButFor(twice, stock_data, n)

\* C1's case: x held 2, add_item(x, 2) was called, and x holds 4
C1_Witness ==
    /\ call.op = "add_item" /\ call.item = ItemX /\ call.qty = Int_(2)
    /\ Stores(pre.stock_data, ItemX, 2)
    /\ Stores(stock_data, ItemX, 4)
    /\ ~IsKey(stock_data, ItemA)

\* C2: remove(name, q) of a present name stored at s: if s > q the entry stays
\* at s - q; if s <= q the entry is deleted, the name is no key and
\* get_qty returns 0; every other entry is unchanged.
C2_RemovePresent ==
    (call.op = "remove_item" /\ IsKey(pre.stock_data, call.item)
        /\ call.qty.kind \in {"int", "bool"}) =>
        \E s \in (0 - MaxNeg) .. MaxQty :
            /\ Stores(pre.stock_data, call.item, s)
            /\ ret.exc = "none"
            /\ s > call.qty.v => Stores(stock_data, call.item, s - call.qty.v)
            /\ s <= call.qty.v =>
                 ~IsKey(stock_data, call.item) /\ get_qty(stock_data, call.item) = 0
            /\ SameButFor(pre.stock_data, stock_data, call.item)
            /\ Len(stock_data) = Len(pre.stock_data) - (IF s > call.qty.v THEN 0 ELSE 1)

\* C2's case: a removal of exactly the stored quantity deleted the entry and
\* left another entry in place
C2_Witness ==
    /\ call.op = "remove_item" /\ call.item = ItemA /\ call.qty = Int_(2)
    /\ Stores(pre.stock_data, ItemA, 2)
    /\ ~IsKey(stock_data, ItemA)
    /\ Stores(stock_data, ItemX, 1)

\* C3: remove(name, q) of a name that is no key, for any q, leaves the dict
\* exactly as it was and raises nothing.
C3_RemoveAbsent ==
    (call.op = "remove_item" /\ ~IsKey(pre.stock_data, call.item)) =>
        stock_data = pre.stock_data /\ ret.exc = "none"

\* C3's case: a removal of an absent name with a str quantity, from a dict
\* that has another entry
C3_Witness ==
    /\ call.op = "remove_item" /\ call.item = ItemX /\ call.qty = PyStr
    /\ ~IsKey(pre.stock_data, ItemX)
    /\ IsKey(stock_data, ItemA)
    /\ ret.diag = "warning"

\* C7: check_low_items returns exactly the names stored below the threshold
\* (a name stored at the threshold is excluded), each once, in the dict's
\* iteration order, and leaves the dict unchanged; without a threshold
\* argument the threshold is 5.
C7_CheckLow ==
    call.op = "check_low_items" =>
        LET t == IF call.threshold.given THEN call.threshold.v ELSE 5
        IN  /\ \A i \in DOMAIN stock_data :
                (stock_data[i].qty < t) <=>
                    (\E k \in DOMAIN ret.val : ret.val[k] = stock_data[i].item)
            /\ \A k \in DOMAIN ret.val : IsKey(stock_data, ret.val[k])
            /\ \A k, m \in DOMAIN ret.val :
                k < m => Position(stock_data, ret.val[k]) < Position(stock_data, ret.val[m])
            /\ stock_data = pre.stock_data

\* C7's case: with no threshold given, of x at 5, a at 4: only a is returned
C7_Witness ==
    /\ call.op = "check_low_items" /\ ~call.threshold.given
    /\ stock_data = <<[item |-> ItemX, qty |-> 5], [item |-> ItemA, qty |-> 4]>>
    /\ ret.val = <<ItemA>>

\* C4: an add call whose name is empty or whose quantity is not an integer
\* leaves the dict exactly as it was, appends nothing to the caller's log
\* list and raises nothing, from every reachable dict.
C4_InvalidAddIsNoOp ==
    (call.op = "add_item" /\ (call.item = <<>> \/ call.qty.kind \in {"float", "str"})) =>
        /\ stock_data = pre.stock_data
        /\ logs = pre.logs
        /\ ret.exc = "none"

\* C4's case: a call given the caller's list, a valid name and a str
\* quantity, from a dict and a list that are not empty
C4_Witness ==
    /\ call.op = "add_item" /\ call.withLogs /\ call.item = ItemA /\ call.qty = PyStr
    /\ Stores(stock_data, ItemA, 2)
    /\ Len(logs) = 1
    /\ ret.diag = "error"

\* C10: the caller's list L holds as many entries as there were add calls
\* given L that passed validation: such a call appends exactly one entry at
\* the end, a rejected call and a call without a log argument leave L as it
\* was.
C10_LogCount ==
    /\ Len(logs) = nLogged
    /\ call.op = "add_item" =>
         IF ValidAdd /\ call.withLogs
         THEN /\ Len(logs) = Len(pre.logs) + 1
              /\ SubSeq(logs, 1, Len(pre.logs)) = pre.logs
              /\ logs[Len(logs)].item = call.item
              /\ logs[Len(logs)].qty = call.qty
         ELSE logs = pre.logs

\* C10's case: a second entry was appended to L after calls without L had
\* changed the dict
C10_Witness ==
    /\ call.op = "add_item" /\ call.withLogs /\ call.item = ItemX
    /\ Len(pre.logs) = 1 /\ Len(logs) = 2 /\ nLogged = 2
    /\ Stores(stock_data, ItemA, 3)

\* C8 as stated: from the empty dict, under adds of non-negative integers to
\* non-empty names and removals of non-negative integers, every entry has a
\* quantity strictly greater than zero.
C8_AllPositive == \A i \in DOMAIN stock_data : stock_data[i].qty > 0

\* C8 as amended: under the same calls every entry has a quantity greater
\* than or equal to zero, and the entry a removal leaves in place is strictly
\* greater than zero.
C8_NonNegative ==
    /\ \A i \in DOMAIN stock_data : stock_data[i].qty >= 0
    /\ call.op = "remove_item" =>
         \A i \in DOMAIN stock_data :
            stock_data[i].item = call.item => stock_data[i].qty > 0

\* C8's case: a removal of less than the stored quantity left the entry, and
\* another entry is stored at zero
C8_Witness ==
    /\ call.op = "remove_item" /\ call.item = ItemA /\ call.qty = Int_(2)
    /\ Stores(pre.stock_data, ItemA, 3)
    /\ Stores(stock_data, ItemA, 1)
    /\ Stores(stock_data, ItemX, 0)

\* C5: save(inv, path) followed by load(path) returns a dict equal to inv,
\* for every dict of string keys and integer values.
C5_RoundTrip ==
    /\ call.op = "save_data" =>
         /\ load_data(fs, call.file).exc = "none"
         /\ load_data(fs, call.file).val = stock_data
    /\ (call.op = "load_data" /\ saved[call.file].done) =>
         /\ ret.exc = "none"
         /\ ret.val = saved[call.file].stock_data
         /\ ret.val = stock_data

\* C5's case: a dict with a negative quantity and keys that need escaping
\* was saved to a path and loaded from it
C5_Witness ==
    /\ call.op = "load_data" /\ call.file = "backup.json" /\ saved["backup.json"].done
    /\ stock_data = <<[item |-> <<BSLASH, "x">>, qty |-> 0 - 12],
                      [item |-> <<QUOTE>>, qty |-> 105]>>
    /\ ret.val = stock_data

\* C6: load returns an empty dict and raises nothing when no file exists at
\* the path and when the file there does not contain valid JSON (bytes that
\* are not UTF-8 text are not JSON).
C6_LoadFallsBack ==
    (call.op = "load_data"
        /\ \/ ~pre.fs[call.file].exists
           \/ \E i \in DOMAIN pre.fs[call.file].bytes : pre.fs[call.file].bytes[i] = BadByte
           \/ ~json_decode(pre.fs[call.file].bytes).ok) =>
        ret.exc = "none" /\ ret.val = <<>>

\* C9: the file changes only when save_data is called; after a save and any
\* calls on the dict in memory, load_data of the path returns the dict as it
\* was at the most recent save, whatever the file held before.
C9_FileChangesOnlyOnSave ==
    /\ call.op # "save_data" => fs = pre.fs
    /\ call.op = "save_data" =>
         \A p \in Paths : p # call.file => fs[p] = pre.fs[p]
    /\ saved[DefaultFile].done =>
         /\ load_data(fs, DefaultFile).exc = "none"
         /\ load_data(fs, DefaultFile).val = saved[DefaultFile].stock_data
    /\ (call.op = "load_data" /\ saved[DefaultFile].done) =>
         ret.val = saved[DefaultFile].stock_data

\* C9's case: after a save over a file that held other text, the dict in
\* memory was changed and load_data still returned the saved dict
C9_Witness ==
    /\ call.op = "load_data" /\ ~call.assign
    /\ saved[DefaultFile].done
    /\ saved[DefaultFile].stock_data = <<[item |-> ItemA, qty |-> 10], [item |-> ItemX, qty |-> 2]>>
    /\ stock_data = <<[item |-> ItemA, qty |-> 10], [item |-> ItemX, qty |-> 4]>>
    /\ ret.val = saved[DefaultFile].stock_data

====
